---- MODULE Spec2Model ----
(***************************************************************************)
(* A model of the fashion recommendation pipeline:                         *)
(*   src/segmentation.py       box geometry, filter, merger, main()        *)
(*   src/direct_pipeline.py    run_pipeline() aggregation, /evaluate       *)
(*   src/gemini_recommendations.py  the recommendation step                *)
(*                                                                         *)
(* Boxes are <<x1, y1, x2, y2>>.  A segment is [label, bbox]; a merged     *)
(* segment is [label, merged_labels, bbox].  Python floats that arise      *)
(* (IoU, the 1% area floor) are kept as exact rationals: an IoU is a pair  *)
(* <<numerator, denominator>> and a threshold is given in tenths.          *)
(***************************************************************************)
EXTENDS Integers, Sequences, FiniteSets, TLC

\* ------------------------------------------------------------------ bounds
MaxSegs == 3
    \* longest segment list handed to the merger, the filter and the aggregator

\* ------------------------------------------------------------ input domains
Coord == {0, 1, 2}
    \* the pixel grid the boxes of the called-alone functions are drawn from
Labels == {1, 2}
    \* class ids (label 0, background, is never emitted: segmentation.py:125)
ThresholdTenths == {0, 3, 10, 12}
    \* --iou-threshold values, in tenths: 0.0, 0.3 (the default), 1.0, 1.2

\* Every well-formed box of the grid (x1 < x2, y1 < y2) ...
WellFormedBoxes ==
  {b \in Coord \X Coord \X Coord \X Coord : b[1] < b[3] /\ b[2] < b[4]}
\* ... and a zero-width column, which segment_image emits for a class that is
\* one pixel wide (x1 = xs.min() = xs.max() = x2, segmentation.py:130).
DegenerateBoxes == {<<1, 0, 1, 2>>}
Boxes == WellFormedBoxes \cup DegenerateBoxes

Segments == [label : Labels, bbox : Boxes]

\* The lists of at most n elements of S, as a set TLC enumerates lazily.
SeqsUpTo(S, n) == UNION {[1..k -> S] : k \in 0..n}

\* Python's None (falsy, like the empty tuple: segmentation.py:97 tests truth)
None == <<>>
MinAreas == {1, 2, 1000}
    \* --min-area values; 1000 is the default (segmentation.py:163)
ImageSizes == {<<10, 10>>, <<20, 10>>, <<25, 10>>}
    \* img.size: 1% of the image is 1, 2 and 2.5 pixels

\* The segments the filter is called alone on: boxes in the first rows.
FilterSegments == {s \in Segments : s.bbox[2] = 0 /\ s.bbox[1] # 2}

VARIABLES
  segments,       \* the list handed to merge_overlapping_boxes / filter_small_segments,
                  \* in main() what segment_image returned
  iou_threshold,  \* in tenths
  min_area,
  image_size,     \* <<width, height>> or None
  merged,         \* what merge_overlapping_boxes returned
  filtered,       \* what filter_small_segments returned
  no_filter,      \* main(): args.no_filter
  no_merge,       \* main(): args.no_merge
  segs,           \* main(): the local variable segs
  segments_json,  \* main(): the document written to --segments-json, None before
  segments_data,         \* run_pipeline(): the segments document as read, {} if absent
  recommendations_data,  \* run_pipeline(): the recommendations document as read
  annotated_exists,      \* run_pipeline(): os.path.exists(ANNOTATED_IMAGE_OUTPUT)
  results,               \* run_pipeline(): the dictionary returned
  fs_segments,    \* the file segments.json: Absent, Torn or a document
  fs_recs,        \* the file gemini_recommendations.json: Absent, Torn or a document
  fs_annotated,   \* whether annotated.png exists
  body,           \* per request: request.get_json()
  rpc,            \* per request: where its handler stands
  rec_segments,   \* per request: gemini_recommendations.py main(), segments
  pending_recs,   \* per request: analyze_segments_with_gemini(), result
  seg_data,       \* per request: run_pipeline(), segments_data
  rec_data,       \* per request: run_pipeline(), recommendations_data
  failed,         \* per request: which collaborator failed during its run
  response,       \* per request: what /evaluate returned
  arg_box1,       \* calculate_iou(): the argument box1
  arg_box2,       \* calculate_iou(): the argument box2
  iou_returned,   \* calculate_iou(): the value returned, None before
  pc

callVars == <<segments, iou_threshold, min_area, image_size, merged, filtered>>
mainVars == <<no_filter, no_merge, segs, segments_json>>
aggVars == <<segments_data, recommendations_data, annotated_exists, results>>
fsVars == <<fs_segments, fs_recs, fs_annotated>>
reqVars == <<body, rpc, rec_segments, pending_recs, seg_data, rec_data, failed, response>>
pipeVars == <<fsVars, reqVars>>
iouVars == <<arg_box1, arg_box2, iou_returned>>
otherVars == <<callVars, mainVars, aggVars, iouVars, pc>>
vars == <<callVars, mainVars, aggVars, pipeVars, iouVars, pc>>

\* The variables a specification does not use stay at these values.
CallIdle ==
  /\ segments = <<>> /\ iou_threshold = 3 /\ min_area = 1000 /\ image_size = None
  /\ merged = <<>> /\ filtered = <<>>
MainIdle ==
  /\ no_filter = FALSE /\ no_merge = FALSE /\ segs = <<>> /\ segments_json = None
AggIdle ==
  /\ segments_data = <<>> /\ recommendations_data = <<>>
  /\ annotated_exists = FALSE /\ results = <<>>

IouIdle == arg_box1 = <<>> /\ arg_box2 = <<>> /\ iou_returned = <<>>

PipeIdle ==
  /\ fs_segments = <<>> /\ fs_recs = <<>> /\ fs_annotated = FALSE
  /\ body = <<>> /\ rpc = <<>> /\ rec_segments = <<>> /\ pending_recs = <<>>
  /\ seg_data = <<>> /\ rec_data = <<>> /\ failed = <<>> /\ response = <<>>

\* ---------------------------------------------------------- box geometry
Max(a, b) == IF a >= b THEN a ELSE b
Min(a, b) == IF a <= b THEN a ELSE b

\* calculate_iou without its early return and without its `union > 0` test
calculate_iou_unguarded(box1, box2) ==
  LET x1_i == Max(box1[1], box2[1])
      y1_i == Max(box1[2], box2[2])
      x2_i == Min(box1[3], box2[3])
      y2_i == Min(box1[4], box2[4])
      intersection == (x2_i - x1_i) * (y2_i - y1_i)
      area1 == (box1[3] - box1[1]) * (box1[4] - box1[2])
      area2 == (box2[3] - box2[1]) * (box2[4] - box2[2])
  IN <<intersection, area1 + area2 - intersection>>

\* segmentation.py:33-52.  The float result is kept as <<num, den>>, den > 0.
calculate_iou(box1, box2) ==
  LET x1_i == Max(box1[1], box2[1])
      y1_i == Max(box1[2], box2[2])
      x2_i == Min(box1[3], box2[3])
      y2_i == Min(box1[4], box2[4])
      intersection == (x2_i - x1_i) * (y2_i - y1_i)
      area1 == (box1[3] - box1[1]) * (box1[4] - box1[2])
      area2 == (box2[3] - box2[1]) * (box2[4] - box2[2])
      union == area1 + area2 - intersection
  IN IF x2_i <= x1_i \/ y2_i <= y1_i THEN <<0, 1>>
     ELSE IF union > 0 THEN <<intersection, union>> ELSE <<0, 1>>

\* ---------------------------------------------------------------- merger
\* segmentation.py:77  `if iou > iou_threshold`, the threshold in tenths
Exceeds_ge(iou, thr) == 10 * iou[1] >= thr * iou[2]
Exceeds(iou, thr) == 10 * iou[1] > thr * iou[2]

\* segmentation.py:79-83  the accumulator grows to the union of the two boxes
UnionBox_keep(merged_box, bbox) == merged_box
UnionBox(merged_box, bbox) ==
  <<Min(merged_box[1], bbox[1]), Min(merged_box[2], bbox[2]),
    Max(merged_box[3], bbox[3]), Max(merged_box[4], bbox[4])>>

\* segmentation.py:85  used.add(j)
MarkUsed_skip(used, j) == used
MarkUsed(used, j) == used \cup {j}

\* the inner loop leaving after the first candidate it tests (break for continue)
ScanLater_break(seglist, j, merged_box, merged_labels, used, thr) ==
  IF j > Len(seglist) \/ j \in used
       \/ ~Exceeds(calculate_iou(merged_box, seglist[j].bbox), thr)
  THEN [merged_box |-> merged_box, merged_labels |-> merged_labels, used |-> used]
  ELSE [merged_box |-> UnionBox(merged_box, seglist[j].bbox),
        merged_labels |-> Append(merged_labels, seglist[j].label),
        used |-> MarkUsed(used, j)]

\* segmentation.py:72-85  the inner loop over the later segments j, j+1, ...
RECURSIVE ScanLater(_, _, _, _, _, _)
ScanLater(seglist, j, merged_box, merged_labels, used, thr) ==
  IF j > Len(seglist)
  THEN [merged_box |-> merged_box, merged_labels |-> merged_labels, used |-> used]
  ELSE IF j \in used
  THEN ScanLater(seglist, j + 1, merged_box, merged_labels, used, thr)
  ELSE IF Exceeds(calculate_iou(merged_box, seglist[j].bbox), thr)
  THEN ScanLater(seglist, j + 1, UnionBox(merged_box, seglist[j].bbox),
                 Append(merged_labels, seglist[j].label), MarkUsed(used, j), thr)
  ELSE ScanLater(seglist, j + 1, merged_box, merged_labels, used, thr)

\* segmentation.py:62-91  the outer loop over the seeds i, i+1, ...
RECURSIVE MergeFrom(_, _, _, _, _)
\* the outer loop labelling every cluster with the label of the first segment
\* of the list instead of the first label of the cluster
MergeFrom_list_head(seglist, i, out, used, thr) ==
  IF i > Len(seglist) THEN out
  ELSE IF i \in used THEN MergeFrom(seglist, i + 1, out, used, thr)
  ELSE LET r == ScanLater(seglist, i + 1, seglist[i].bbox, <<seglist[i].label>>,
                          used \cup {i}, thr)
       IN MergeFrom(seglist, i + 1,
                    Append(out, [label |-> seglist[1].label,
                                 merged_labels |-> r.merged_labels,
                                 bbox |-> r.merged_box]),
                    r.used, thr)
MergeFrom(seglist, i, out, used, thr) ==
  IF i > Len(seglist) THEN out
  ELSE IF i \in used THEN MergeFrom(seglist, i + 1, out, used, thr)
  ELSE LET r == ScanLater(seglist, i + 1, seglist[i].bbox, <<seglist[i].label>>,
                          used \cup {i}, thr)
       IN MergeFrom(seglist, i + 1,
                    Append(out, [label |-> r.merged_labels[1],
                                 merged_labels |-> r.merged_labels,
                                 bbox |-> r.merged_box]),
                    r.used, thr)

\* segmentation.py:54-93
merge_overlapping_boxes(seglist, thr) ==
  IF seglist = <<>> THEN seglist ELSE MergeFrom(seglist, 1, <<>>, {}, thr)

\* ---------------------------------------------------------------- filter
\* segmentation.py:97-100  the effective threshold, in hundredths of a pixel:
\* min_area, or max(min_area, img_area * 0.01) when an image size is given.
\* (For every image that load_image returns, at most 1024 x 1024, the float
\* product img_area * 0.01 compares with an integer area as the exact
\* img_area / 100 does.)
EffectiveMinArea100_min(min_a, size) ==
  IF size # None
  THEN Min(100 * min_a, size[1] * size[2])
  ELSE 100 * min_a
EffectiveMinArea100(min_a, size) ==
  IF size # None
  THEN Max(100 * min_a, size[1] * size[2])
  ELSE 100 * min_a

\* segmentation.py:105
BoxArea(bbox) == (bbox[3] - bbox[1]) * (bbox[4] - bbox[2])

\* segmentation.py:106  `if area >= min_area`
AreaPasses_gt(area, min100) == 100 * area > min100
AreaPasses(area, min100) == 100 * area >= min100

\* segmentation.py:95-109
filter_small_segments(seglist, min_a, size) ==
  LET min100 == EffectiveMinArea100(min_a, size)
      Keep(seg) == AreaPasses(BoxArea(seg.bbox), min100)
  IN SelectSeq(seglist, Keep)

\* ------------------------------------------------------------------ main()
\* segmentation.py:123-133  what segment_image can return: one segment per class
\* present, classes ascending and never 0, x1 <= x2 and y1 <= y2.
ClassIds == 1..MaxSegs
SegmentImageOutputs ==
  LET Nth(K, i) == CHOOSE c \in K : Cardinality({d \in K : d <= c}) = i
      ListOf(bboxOf) ==
        [i \in 1..Cardinality(DOMAIN bboxOf) |->
           [label |-> Nth(DOMAIN bboxOf, i), bbox |-> bboxOf[Nth(DOMAIN bboxOf, i)]]]
  IN {ListOf(bboxOf) : bboxOf \in UNION {[K -> Boxes] : K \in SUBSET ClassIds}}

\* segmentation.py:176-179  parse_args and load_image
InitMain ==
  /\ no_filter \in BOOLEAN
  /\ no_merge \in BOOLEAN
  /\ min_area \in {1, 1000}
  /\ iou_threshold \in {3, 10}
  /\ image_size \in {<<10, 10>>, <<20, 10>>}
  /\ segments = <<>> /\ merged = <<>> /\ filtered = <<>>
  /\ segs = <<>>
  /\ segments_json = None
  /\ AggIdle /\ PipeIdle /\ IouIdle
  /\ pc = "start"

\* segmentation.py:189
main_segment ==
  /\ pc = "start"
  /\ \E out \in SegmentImageOutputs :
       /\ segments' = out
       /\ segs' = out
  /\ pc' = "segmented"
  /\ UNCHANGED <<iou_threshold, min_area, image_size, merged, filtered,
                 no_filter, no_merge, segments_json, aggVars, pipeVars, iouVars>>

\* segmentation.py:193-195
main_filter ==
  /\ pc = "segmented"
  /\ segs' = IF ~no_filter THEN filter_small_segments(segs, min_area, image_size)
             ELSE segs
  /\ pc' = "filter_done"
  /\ UNCHANGED <<callVars, no_filter, no_merge, segments_json, aggVars, pipeVars, iouVars>>

\* segmentation.py:198-200
main_merge_always ==
  /\ pc = "filter_done"
  /\ segs' = merge_overlapping_boxes(segs, iou_threshold)
  /\ pc' = "merge_done"
  /\ UNCHANGED <<callVars, no_filter, no_merge, segments_json, aggVars, pipeVars, iouVars>>
main_merge ==
  /\ pc = "filter_done"
  /\ segs' = IF ~no_merge THEN merge_overlapping_boxes(segs, iou_threshold)
             ELSE segs
  /\ pc' = "merge_done"
  /\ UNCHANGED <<callVars, no_filter, no_merge, segments_json, aggVars, pipeVars, iouVars>>

\* segmentation.py:203-204
main_write ==
  /\ pc = "merge_done"
  /\ segments_json' = [segments |-> segs]
  /\ pc' = "written"
  /\ UNCHANGED <<callVars, no_filter, no_merge, segs, aggVars, pipeVars, iouVars>>

NextMain == main_segment \/ main_filter \/ main_merge \/ main_write

SpecMain == InitMain /\ [][NextMain]_vars

\* -------------------------------------------- run_pipeline(): aggregation
\* A JSON object is a function from its keys; {} is the empty function.
EmptyDict == <<>>
Has(dict, key) == key \in DOMAIN dict
Get(dict, key, default) == IF key \in DOMAIN dict THEN dict[key] ELSE default
Put(dict, key, value) ==
  [k \in DOMAIN dict \cup {key} |-> IF k = key THEN value ELSE dict[k]]

\* str() of a non-negative int: direct_pipeline.py:73
Digit(d) ==
  CASE d = 0 -> "0" [] d = 1 -> "1" [] d = 2 -> "2" [] d = 3 -> "3" [] d = 4 -> "4"
    [] d = 5 -> "5" [] d = 6 -> "6" [] d = 7 -> "7" [] d = 8 -> "8" [] d = 9 -> "9"
RECURSIVE ToStr(_)
ToStr(n) == IF n < 10 THEN Digit(n) ELSE ToStr(n \div 10) \o Digit(n % 10)

\* direct_pipeline.py:76  `if label in processed_labels: continue`
AlreadyProcessed_never(label, processed_labels) == FALSE
AlreadyProcessed(label, processed_labels) == label \in processed_labels

\* direct_pipeline.py:82-88
EmitSegment_placeholder(res, recs, label, bbox) ==
  Put(res, label,
      [type |-> IF Has(recs, label) THEN Get(recs[label], "type", "Unknown item")
                ELSE "Unknown item",
       bbox |-> bbox,
       recommendations |-> IF Has(recs, label)
                           THEN Get(recs[label], "recommendations", <<>>)
                           ELSE <<>>])
EmitSegment(res, recs, label, bbox) ==
  IF Has(recs, label)
  THEN Put(res, label,
           [type |-> Get(recs[label], "type", "Unknown item"),
            bbox |-> bbox,
            recommendations |-> Get(recs[label], "recommendations", <<>>)])
  ELSE res

\* direct_pipeline.py:71-88  the loop over segments_data['segments']
RECURSIVE AddSegments(_, _, _, _, _)
AddSegments(seglist, k, processed_labels, recs, res) ==
  IF k > Len(seglist) THEN res
  ELSE LET label == ToStr(seglist[k].label)
       IN IF AlreadyProcessed(label, processed_labels)
          THEN AddSegments(seglist, k + 1, processed_labels, recs, res)
          ELSE AddSegments(seglist, k + 1, processed_labels \cup {label}, recs,
                           EmitSegment(res, recs, label, seglist[k].bbox))

\* direct_pipeline.py:91-96
AddOverall(res, recs) ==
  IF Has(recs, "overall_outfit")
  THEN Put(res, "overall_outfit",
           [type |-> Get(recs["overall_outfit"], "type", "Complete Outfit"),
            recommendations |-> Get(recs["overall_outfit"], "recommendations", <<>>)])
  ELSE res

\* direct_pipeline.py:99-100
AddAnnotated(res, exists) ==
  IF exists THEN Put(res, "annotated_image", "annotated.png") ELSE res

\* direct_pipeline.py:66-102
Aggregate(seg_doc, recs, exists) ==
  LET perLabel == IF Has(seg_doc, "segments")
                  THEN AddSegments(seg_doc["segments"], 1, {}, recs, EmptyDict)
                  ELSE EmptyDict
  IN AddAnnotated(AddOverall(perLabel, recs), exists)

\* --------------------------------------------- the aggregation, called alone
AggBoxes == {<<0, 0, 1, 1>>, <<0, 0, 2, 2>>, <<1, 1, 2, 2>>}
AggSegments == [label : Labels, bbox : AggBoxes]
RecKeys == {"1", "2", "3", "overall_outfit"}
RecEntries ==
  {[type |-> "shirt, blouse", recommendations |-> <<"a", "b", "c">>], EmptyDict}
RecDocs == UNION {[K -> RecEntries] : K \in SUBSET RecKeys}

InitAgg ==
  /\ segments_data \in
       {EmptyDict} \cup {[segments |-> l] : l \in SeqsUpTo(AggSegments, MaxSegs)}
  /\ recommendations_data \in RecDocs
  /\ annotated_exists \in BOOLEAN
  /\ results = EmptyDict
  /\ CallIdle /\ MainIdle /\ PipeIdle /\ IouIdle
  /\ pc = "start"

AggregateCall ==
  /\ pc = "start"
  /\ results' = Aggregate(segments_data, recommendations_data, annotated_exists)
  /\ pc' = "aggregated"
  /\ UNCHANGED <<callVars, mainVars, segments_data, recommendations_data,
                 annotated_exists, pipeVars, iouVars>>

NextAgg == AggregateCall

SpecAgg == InitAgg /\ [][NextAgg]_vars

\* ------------------------------------------ the recommendation step
\* gemini_recommendations.py:15-25  segmentation_labels, the entries used here
ItemType(label) ==
  CASE label = "1" -> "shirt, blouse"
    [] label = "5" -> "jacket"
    [] label = "7" -> "pants"
    [] label = "24" -> "shoe"
    [] OTHER -> "Unknown item"

\* gemini_recommendations.py:71-155  The three strings returned are kept as what
\* determines them: the service's answer to this crop of this image, or, when
\* the call raises (line 149), the fixed texts about item_type.
get_gemini_recommendations(img, crop, item_type, call_fails) ==
  IF call_fails
  THEN [source |-> "fallback", image |-> "", crop |-> <<>>, item |-> item_type]
  ELSE [source |-> "gemini", image |-> img, crop |-> crop, item |-> item_type]

\* gemini_recommendations.py:158-252
get_overall_outfit_recommendations(img, seglist, call_fails) ==
  IF call_fails
  THEN [source |-> "fallback", image |-> "", items |-> <<>>]
  ELSE [source |-> "gemini", image |-> img,
        items |-> [i \in 1..Len(seglist) |-> ItemType(ToStr(seglist[i].label))]]

\* gemini_recommendations.py:266-283  the loop over the segments; `failing`
\* holds the indices whose service call raises
RECURSIVE RecommendSegments(_, _, _, _, _)
RecommendSegments(img, seglist, i, failing, result) ==
  IF i > Len(seglist) THEN result
  ELSE LET label == ToStr(seglist[i].label)
           item_type == ItemType(label)
       IN RecommendSegments(img, seglist, i + 1, failing,
            Put(result, label,
                [type |-> item_type,
                 bbox |-> seglist[i].bbox,
                 recommendations |->
                   get_gemini_recommendations(img, seglist[i].bbox, item_type,
                                              i \in failing)]))

\* gemini_recommendations.py:264-296  the document analyze_segments_with_gemini
\* writes; index 0 in `failing` is the overall-outfit call
analyze_segments_with_gemini(img, seglist, failing) ==
  Put(RecommendSegments(img, seglist, 1, failing, EmptyDict), "overall_outfit",
      [type |-> "Complete Outfit",
       recommendations |->
         get_overall_outfit_recommendations(img, seglist, 0 \in failing)])

\* ------------------------------------------------ the /evaluate service
MaxRequests == 2
Requests == 1..MaxRequests

\* segmentation.py:163 and :157, the defaults run_segmentation leaves in force
DefaultMinArea == 1000
DefaultIouThresholdTenths == 3

\* The images requests name, with what load_image and segment_image (the
\* pretrained model) return for each.
Images == {"a.jpg", "b.jpg", "blank.jpg"}
ImageSizeOf(img) == <<100, 100>>
SegmentImageOf(img) ==
  CASE img = "a.jpg" ->
         <<[label |-> 1, bbox |-> <<0, 0, 50, 50>>],
           [label |-> 7, bbox |-> <<0, 50, 50, 99>>],
           [label |-> 24, bbox |-> <<0, 90, 10, 99>>]>>
    [] img = "b.jpg" ->
         <<[label |-> 1, bbox |-> <<10, 10, 60, 60>>],
           [label |-> 5, bbox |-> <<12, 12, 62, 62>>]>>
    [] OTHER -> <<>>

\* segmentation.py:189-204 under the default arguments
SegmentationDocument(img) ==
  [segments |->
     merge_overlapping_boxes(
       filter_small_segments(SegmentImageOf(img), DefaultMinArea, ImageSizeOf(img)),
       DefaultIouThresholdTenths)]

\* A file that does not exist, and a file opened for writing and not yet
\* written (open(..., "w") truncates: a reader finds no valid JSON in it).
Absent == [absent |-> TRUE]
Torn == [torn |-> TRUE]

\* request.get_json(): null, {}, {"input_path": ""}, {"input_path": <image>},
\* the JSON array ["input_path"], and a body that is not JSON at all (empty
\* included), on which get_json() raises BadRequest.
JsonNull == [null |-> TRUE]
JsonArray == [array |-> <<"input_path">>]
InvalidJson == [invalid |-> TRUE]
Bodies ==
  {JsonNull, EmptyDict, [input_path |-> ""], JsonArray, InvalidJson}
    \cup {[input_path |-> img] : img \in Images}
Falsy(data) == data = JsonNull \/ data = EmptyDict

\* direct_pipeline.py:116  `'input_path' in data`: a key of an object, an
\* element of an array
Contains(data, key) ==
  IF Has(data, "array") THEN \E i \in DOMAIN data["array"] : data["array"][i] = key
  ELSE Has(data, key)

\* direct_pipeline.py:114, 121  get_json() raises on a body that is not JSON;
\* data['input_path'] raises TypeError on an array
Raises(data) ==
  \/ data = InvalidJson
  \/ Has(data, "array") /\ Contains(data, "input_path")
ServerErrorOf(data) ==
  IF data = InvalidJson
  THEN "Server error: 400 Bad Request: Failed to decode JSON object"
  ELSE "Server error: list indices must be integers or slices, not str"

NoResponse == [status |-> 0, body |-> EmptyDict]

\* direct_pipeline.py:104-106  `except Exception as e: return {"error": str(e)}`
ErrorResult_swallow(message) == EmptyDict
ErrorResult(message) == [error |-> message]

\* direct_pipeline.py:132-135
ResponseFor(res) ==
  IF Has(res, "error") THEN [status |-> 500, body |-> res]
  ELSE [status |-> 200, body |-> res]

\* direct_pipeline.py:56-58, 62-64  `if os.path.exists(f): data = json.load(f)`
LoadIfExists_strict(file) ==
  IF file = Absent \/ file = Torn THEN [ok |-> FALSE, data |-> EmptyDict]
  ELSE [ok |-> TRUE, data |-> file]
LoadIfExists(file) ==
  IF file = Absent THEN [ok |-> TRUE, data |-> EmptyDict]
  ELSE IF file = Torn THEN [ok |-> FALSE, data |-> EmptyDict]
  ELSE [ok |-> TRUE, data |-> file]

InitPipe ==
  /\ fs_segments = Absent /\ fs_recs = Absent /\ fs_annotated = FALSE
  /\ body = [r \in Requests |-> JsonNull]
  /\ rpc = [r \in Requests |-> "idle"]
  /\ rec_segments = [r \in Requests |-> <<>>]
  /\ pending_recs = [r \in Requests |-> EmptyDict]
  /\ seg_data = [r \in Requests |-> EmptyDict]
  /\ rec_data = [r \in Requests |-> EmptyDict]
  /\ failed = [r \in Requests |-> "none"]
  /\ response = [r \in Requests |-> NoResponse]
  /\ CallIdle /\ MainIdle /\ AggIdle /\ IouIdle
  /\ pc = "serving"

\* the run of request r ends here with run_pipeline returning res
Finish(r, res) ==
  /\ response' = [response EXCEPT ![r] = ResponseFor(res)]
  /\ rpc' = [rpc EXCEPT ![r] = "done"]

\* a POST /evaluate arrives
Receive(r) ==
  /\ rpc[r] = "idle"
  /\ \E b \in Bodies : body' = [body EXCEPT ![r] = b]
  /\ rpc' = [rpc EXCEPT ![r] = "evaluate"]
  /\ UNCHANGED <<otherVars, fsVars, rec_segments, pending_recs, seg_data, rec_data, failed, response>>

\* direct_pipeline.py:114-127  the two client errors
evaluate_reject(r) ==
  /\ rpc[r] = "evaluate"
  /\ ~Raises(body[r])
  /\ \/ /\ Falsy(body[r]) \/ ~Contains(body[r], "input_path")
        /\ response' = [response EXCEPT ![r] =
             [status |-> 400, body |-> [error |-> "Missing 'input_path' in request body"]]]
     \/ /\ ~Falsy(body[r]) /\ Contains(body[r], "input_path")
        /\ body[r]["input_path"] = ""
        /\ response' = [response EXCEPT ![r] =
             [status |-> 400, body |-> [error |-> "Input path cannot be empty"]]]
  /\ rpc' = [rpc EXCEPT ![r] = "done"]
  /\ UNCHANGED <<otherVars, fsVars, body, rec_segments, pending_recs, seg_data, rec_data, failed>>

\* direct_pipeline.py:137-140  `except Exception as e` around the handler
evaluate_raises(r) ==
  /\ rpc[r] = "evaluate"
  /\ Raises(body[r])
  /\ response' = [response EXCEPT ![r] =
       [status |-> 500, body |-> [error |-> ServerErrorOf(body[r])]]]
  /\ rpc' = [rpc EXCEPT ![r] = "done"]
  /\ UNCHANGED <<otherVars, fsVars, body, rec_segments, pending_recs, seg_data, rec_data, failed>>

\* direct_pipeline.py:130  run_pipeline(input_path) is entered
evaluate_run(r) ==
  /\ rpc[r] = "evaluate"
  /\ ~Raises(body[r])
  /\ ~Falsy(body[r]) /\ Contains(body[r], "input_path")
  /\ body[r]["input_path"] # ""
  /\ rpc' = [rpc EXCEPT ![r] = "segmentation"]
  /\ UNCHANGED <<otherVars, fsVars, body, rec_segments, pending_recs, seg_data, rec_data, failed,
                 response>>

\* direct_pipeline.py:21-26, 104-106  segmentation.py exits non-zero (the image
\* cannot be loaded, the model cannot be run): check=True raises
run_segmentation_fails(r) ==
  /\ rpc[r] = "segmentation"
  /\ failed' = [failed EXCEPT ![r] = "segmentation"]
  /\ Finish(r, ErrorResult("segmentation.py returned non-zero exit status 1"))
  /\ UNCHANGED <<otherVars, fsVars, body, rec_segments, pending_recs, seg_data, rec_data>>

\* segmentation.py:203  open(args.segments_json, "w")
run_segmentation_opens(r) ==
  /\ rpc[r] = "segmentation"
  /\ fs_segments' = Torn
  /\ rpc' = [rpc EXCEPT ![r] = "seg_writing"]
  /\ UNCHANGED <<otherVars, fs_recs, fs_annotated, body, rec_segments, pending_recs, seg_data,
                 rec_data, failed, response>>

\* segmentation.py:204-211  the document and the annotated image are written
run_segmentation_writes(r) ==
  /\ rpc[r] = "seg_writing"
  /\ fs_segments' = SegmentationDocument(body[r]["input_path"])
  /\ fs_annotated' = TRUE
  /\ rpc' = [rpc EXCEPT ![r] = "rec_load"]
  /\ UNCHANGED <<otherVars, fs_recs, body, rec_segments, pending_recs, seg_data, rec_data, failed,
                 response>>

\* gemini_recommendations.py:318-319  json.load raises on a file that holds no
\* valid JSON: the subprocess exits non-zero
rec_load_fails(r) ==
  /\ rpc[r] = "rec_load"
  /\ fs_segments = Torn \/ fs_segments = Absent
  /\ failed' = [failed EXCEPT ![r] = "recommendation_step"]
  /\ Finish(r, ErrorResult("gemini_recommendations.py returned non-zero exit status 1"))
  /\ UNCHANGED <<otherVars, fsVars, body, rec_segments, pending_recs, seg_data, rec_data>>

\* gemini_recommendations.py:318-326
rec_load(r) ==
  /\ rpc[r] = "rec_load"
  /\ fs_segments # Torn /\ fs_segments # Absent
  /\ LET found == Get(fs_segments, "segments", <<>>)
     IN IF found = <<>>
        THEN \* `if not segments: return`: exit status 0, nothing written
             /\ rpc' = [rpc EXCEPT ![r] = "agg_segments"]
             /\ UNCHANGED rec_segments
        ELSE /\ rec_segments' = [rec_segments EXCEPT ![r] = found]
             /\ rpc' = [rpc EXCEPT ![r] = "rec_analyze"]
  /\ UNCHANGED <<otherVars, fsVars, body, pending_recs, seg_data, rec_data, failed, response>>

\* gemini_recommendations.py:260-262  the download or the decoding raises
rec_download_fails(r) ==
  /\ rpc[r] = "rec_analyze"
  /\ failed' = [failed EXCEPT ![r] = "recommendation_step"]
  /\ Finish(r, ErrorResult("gemini_recommendations.py returned non-zero exit status 1"))
  /\ rec_segments' = [rec_segments EXCEPT ![r] = <<>>]
  /\ UNCHANGED <<otherVars, fsVars, body, pending_recs, seg_data, rec_data>>

\* gemini_recommendations.py:264-304  every service call is made, each one
\* answering or raising, and the output file is opened.  The calls that raise
\* are none, the first segment's alone, or all of them with the overall call.
rec_analyze(r) ==
  /\ rpc[r] = "rec_analyze"
  /\ \E failing \in {{}, {1}, 0..Len(rec_segments[r])} :
       /\ pending_recs' = [pending_recs EXCEPT ![r] =
            analyze_segments_with_gemini(body[r]["input_path"], rec_segments[r], failing)]
       /\ failed' = [failed EXCEPT ![r] = IF failing # {} THEN "gemini_call" ELSE @]
  /\ fs_recs' = Torn
  /\ rec_segments' = [rec_segments EXCEPT ![r] = <<>>]
  /\ rpc' = [rpc EXCEPT ![r] = "rec_writing"]
  /\ UNCHANGED <<otherVars, fs_segments, fs_annotated, body, seg_data, rec_data, response>>

\* gemini_recommendations.py:305
rec_writes(r) ==
  /\ rpc[r] = "rec_writing"
  /\ fs_recs' = pending_recs[r]
  /\ pending_recs' = [pending_recs EXCEPT ![r] = EmptyDict]
  /\ rpc' = [rpc EXCEPT ![r] = "agg_segments"]
  /\ UNCHANGED <<otherVars, fs_segments, fs_annotated, body, rec_segments, seg_data, rec_data,
                 failed, response>>

\* direct_pipeline.py:55-58
agg_read_segments(r) ==
  /\ rpc[r] = "agg_segments"
  /\ LET loaded == LoadIfExists(fs_segments)
     IN IF loaded.ok
        THEN /\ seg_data' = [seg_data EXCEPT ![r] = loaded.data]
             /\ rpc' = [rpc EXCEPT ![r] = "agg_recs"]
             /\ UNCHANGED response
        ELSE /\ Finish(r, ErrorResult("Expecting value: line 1 column 1 (char 0)"))
             /\ UNCHANGED seg_data
  /\ UNCHANGED <<otherVars, fsVars, body, rec_segments, pending_recs, rec_data, failed>>

\* direct_pipeline.py:61-102, 132-135
agg_finish(r) ==
  /\ rpc[r] = "agg_recs"
  /\ LET loaded == LoadIfExists(fs_recs)
     IN IF loaded.ok
        THEN /\ rec_data' = [rec_data EXCEPT ![r] = loaded.data]
             /\ Finish(r, Aggregate(seg_data[r], loaded.data, fs_annotated))
        ELSE /\ Finish(r, ErrorResult("Expecting value: line 1 column 1 (char 0)"))
             /\ UNCHANGED rec_data
  /\ UNCHANGED <<otherVars, fsVars, body, rec_segments, pending_recs, seg_data, failed>>

NextPipe ==
  \/ \E r \in Requests : Receive(r)
  \/ \E r \in Requests : evaluate_reject(r)
  \/ \E r \in Requests : evaluate_raises(r)
  \/ \E r \in Requests : evaluate_run(r)
  \/ \E r \in Requests : run_segmentation_fails(r)
  \/ \E r \in Requests : run_segmentation_opens(r)
  \/ \E r \in Requests : run_segmentation_writes(r)
  \/ \E r \in Requests : rec_load_fails(r)
  \/ \E r \in Requests : rec_load(r)
  \/ \E r \in Requests : rec_download_fails(r)
  \/ \E r \in Requests : rec_analyze(r)
  \/ \E r \in Requests : rec_writes(r)
  \/ \E r \in Requests : agg_read_segments(r)
  \/ \E r \in Requests : agg_finish(r)

SpecPipe == InitPipe /\ [][NextPipe]_vars

\* ------------------------------------- run_pipeline called again and again
\* One run at a time: request r acts only while no other request is between
\* its arrival and its answer.  A run then always finds its own segments
\* document whole, so rec_load_fails has no part here.
Solo(r) == \A q \in Requests \ {r} : rpc[q] \in {"idle", "done"}

NextSeq ==
  \/ \E r \in Requests : Solo(r) /\ Receive(r)
  \/ \E r \in Requests : Solo(r) /\ evaluate_reject(r)
  \/ \E r \in Requests : Solo(r) /\ evaluate_raises(r)
  \/ \E r \in Requests : Solo(r) /\ evaluate_run(r)
  \/ \E r \in Requests : Solo(r) /\ run_segmentation_fails(r)
  \/ \E r \in Requests : Solo(r) /\ run_segmentation_opens(r)
  \/ \E r \in Requests : Solo(r) /\ run_segmentation_writes(r)
  \/ \E r \in Requests : Solo(r) /\ rec_load(r)
  \/ \E r \in Requests : Solo(r) /\ rec_download_fails(r)
  \/ \E r \in Requests : Solo(r) /\ rec_analyze(r)
  \/ \E r \in Requests : Solo(r) /\ rec_writes(r)
  \/ \E r \in Requests : Solo(r) /\ agg_read_segments(r)
  \/ \E r \in Requests : Solo(r) /\ agg_finish(r)

SpecSeq == InitPipe /\ [][NextSeq]_vars

\* ------------------------------------------------- the filter, called alone
InitFilter ==
  /\ segments \in SeqsUpTo(FilterSegments, MaxSegs)
  /\ min_area \in MinAreas
  /\ image_size \in ImageSizes \cup {None}
  /\ iou_threshold = 3
  /\ merged = <<>> /\ filtered = <<>>
  /\ MainIdle /\ AggIdle /\ PipeIdle /\ IouIdle
  /\ pc = "start"

FilterCall ==
  /\ pc = "start"
  /\ filtered' = filter_small_segments(segments, min_area, image_size)
  /\ pc' = "filtered"
  /\ UNCHANGED <<segments, iou_threshold, min_area, image_size, merged, mainVars, aggVars, pipeVars, iouVars>>

NextFilter == FilterCall

SpecFilter == InitFilter /\ [][NextFilter]_vars

\* ------------------------------------------- calculate_iou, called alone
\* Every 4-tuple over IouCoord is a box here, malformed ones included.
IouCoord == {-1, 0, 1, 3}
IouBoxes == IouCoord \X IouCoord \X IouCoord \X IouCoord

InitIou ==
  /\ arg_box1 \in IouBoxes /\ arg_box2 \in IouBoxes
  /\ iou_returned = None
  /\ CallIdle /\ MainIdle /\ AggIdle /\ PipeIdle
  /\ pc = "start"

IouCall ==
  /\ pc = "start"
  /\ iou_returned' = calculate_iou(arg_box1, arg_box2)
  /\ pc' = "returned"
  /\ UNCHANGED <<arg_box1, arg_box2, callVars, mainVars, aggVars, pipeVars>>

NextIou == IouCall

SpecIou == InitIou /\ [][NextIou]_vars

\* ------------------------------------------------- the merger, called alone
InitMerge ==
  /\ segments \in SeqsUpTo(Segments, MaxSegs)
  /\ iou_threshold \in ThresholdTenths
  /\ min_area = 1000 /\ image_size = None
  /\ merged = <<>> /\ filtered = <<>>
  /\ MainIdle /\ AggIdle /\ PipeIdle /\ IouIdle
  /\ pc = "start"

MergeCall ==
  /\ pc = "start"
  /\ merged' = merge_overlapping_boxes(segments, iou_threshold)
  /\ pc' = "merged"
  /\ UNCHANGED <<segments, iou_threshold, min_area, image_size, filtered, mainVars, aggVars, pipeVars, iouVars>>

NextMerge == MergeCall

SpecMerge == InitMerge /\ [][NextMerge]_vars

\* ====================================================== claims on the merger
Range(f) == {f[i] : i \in DOMAIN f}
SetMin(S) == CHOOSE x \in S : \A y \in S : x <= y
SetMax(S) == CHOOSE x \in S : \A y \in S : x >= y

\* The input with every label replaced by the segment's index: the merger never
\* reads a label, so its merged_labels on this input are the clusters' indices.
IndexTagged(seglist) ==
  [i \in 1..Len(seglist) |-> [label |-> i, bbox |-> seglist[i].bbox]]

ClusterIndices(seglist, thr) ==
  LET m == merge_overlapping_boxes(IndexTagged(seglist), thr)
  IN [k \in 1..Len(m) |-> m[k].merged_labels]

\* Component-wise min of the top-left and max of the bottom-right corners of the
\* boxes of the segments with index in S.
Hull(seglist, S) ==
  <<SetMin({seglist[i].bbox[1] : i \in S}), SetMin({seglist[i].bbox[2] : i \in S}),
    SetMax({seglist[i].bbox[3] : i \in S}), SetMax({seglist[i].bbox[4] : i \in S})>>

\* C1: the output clusters partition the input indices: every input index is in
\* exactly one cluster, exactly once, and the merged_labels lists hold exactly
\* the labels of those indices, N labels in all.
C1_MergePartition ==
  pc = "merged" =>
    LET idx == ClusterIndices(segments, iou_threshold)
        N == Len(segments)
        slots == {km \in (1..N) \X (1..N) :
                    km[1] <= Len(merged) /\ km[2] <= Len(merged[km[1]].merged_labels)}
    IN /\ Len(merged) = Len(idx)
       /\ \A k \in 1..Len(merged) :
            /\ Len(merged[k].merged_labels) = Len(idx[k])
            /\ \A m \in 1..Len(idx[k]) :
                 /\ idx[k][m] \in 1..N
                 /\ merged[k].merged_labels[m] = segments[idx[k][m]].label
       /\ \A i \in 1..N :
            Cardinality({km \in slots : idx[km[1]][km[2]] = i}) = 1
       /\ Cardinality(slots) = N

\* A list of three of which the first absorbs one and leaves the other.
C1_Witness ==
  /\ pc = "merged"
  /\ Len(segments) = 3
  /\ Len(merged) = 2
  /\ Len(merged[1].merged_labels) = 2

\* C2: a later candidate is absorbed exactly when its IoU with the accumulator
\* (the hull of the seed and of what the cluster absorbed before it) exceeds the
\* threshold; the cluster's bbox is the hull of its members, its label the
\* seed's, and merged_labels the members' labels in ascending index order.
C2_MergeAccumulator ==
  pc = "merged" =>
    LET idx == ClusterIndices(segments, iou_threshold)
        N == Len(segments)
    IN /\ Len(merged) = Len(idx)
       /\ \A k \in 1..Len(idx) :
            LET L == idx[k]
                seed == L[1]
                earlier == UNION {Range(idx[e]) : e \in 1..(k - 1)}
            IN /\ \A m \in 1..(Len(L) - 1) : L[m] < L[m + 1]
               /\ \A j \in (seed + 1)..N :
                    j \notin earlier =>
                      (j \in Range(L) <=>
                         Exceeds(calculate_iou(Hull(segments, {l \in Range(L) : l < j}),
                                               segments[j].bbox),
                                 iou_threshold))
               /\ merged[k].bbox = Hull(segments, Range(L))
               /\ merged[k].label = segments[seed].label
               /\ merged[k].merged_labels = [m \in 1..Len(L) |-> segments[L[m]].label]

\* A chain: the third box does not overlap the seed's own box enough, and is
\* absorbed all the same, by the accumulator the second box has grown.
C2_Witness ==
  /\ pc = "merged"
  /\ iou_threshold = 3
  /\ Len(segments) = 3
  /\ Len(merged) = 1
  /\ ~Exceeds(calculate_iou(segments[1].bbox, segments[3].bbox), iou_threshold)

\* C3: with a threshold of 1.0 or more the merger returns one singleton
\* cluster per input segment, in input order, label and bbox unchanged.
C3_NoOpThreshold ==
  (pc = "merged" /\ iou_threshold >= 10) =>
    merged = [i \in 1..Len(segments) |->
                [label |-> segments[i].label,
                 merged_labels |-> <<segments[i].label>>,
                 bbox |-> segments[i].bbox]]

\* Two identical well-formed boxes (IoU exactly 1.0) under a threshold of 1.0.
C3_Witness ==
  /\ pc = "merged"
  /\ iou_threshold = 10
  /\ Len(segments) >= 2
  /\ segments[1].bbox = segments[2].bbox
  /\ segments[1].bbox \in WellFormedBoxes
  /\ Len(merged) = Len(segments)

\* ====================================================== claims on the filter
\* C4: the filter returns the sub-sequence, in input order and unaltered, of the
\* segments whose area is at least min_area and, when an image size is given,
\* at least 1% of the image as well; an empty input gives an empty output.
C4_FilterSubsequence ==
  pc = "filtered" =>
    LET keep == {i \in 1..Len(segments) :
                   LET a == BoxArea(segments[i].bbox)
                   IN IF image_size = None
                      THEN a >= min_area
                      ELSE a >= min_area /\ 100 * a >= image_size[1] * image_size[2]}
    IN /\ Len(filtered) = Cardinality(keep)
       /\ \A i \in keep :
            filtered[Cardinality({j \in keep : j <= i})] = segments[i]
       /\ (segments = <<>> => filtered = <<>>)

\* The 1% floor decides: it is above min_area, one segment sits exactly on it
\* and is kept, another is below it and dropped.
C4_Witness ==
  /\ pc = "filtered"
  /\ image_size # None
  /\ image_size[1] * image_size[2] > 100 * min_area
  /\ Len(filtered) >= 1
  /\ Len(filtered) < Len(segments)
  /\ \E i \in 1..Len(filtered) :
       100 * BoxArea(filtered[i].bbox) = image_size[1] * image_size[2]

\* ================================================ claims on main(), segmentation.py
\* C7 as stated: with both stages skipped every segment written carries
\* merged_labels = [label].
C7_Original ==
  (pc = "written" /\ no_filter /\ no_merge) =>
    /\ Len(segments_json.segments) = Len(segments)
    /\ \A i \in 1..Len(segments) :
         LET seg == segments_json.segments[i]
         IN /\ seg.label = segments[i].label
            /\ seg.bbox = segments[i].bbox
            /\ "merged_labels" \in DOMAIN seg
            /\ seg.merged_labels = <<seg.label>>

\* C7 as amended: filter runs before merge, each stage is skipped by its own
\* flag, and the segments written carry merged_labels exactly when the merge
\* stage ran; with both stages skipped the raw list is written unchanged, as
\* {label, bbox} records without merged_labels.
C7_FilterThenMerge ==
  pc = "written" =>
    LET afterFilter == IF no_filter THEN segments
                       ELSE filter_small_segments(segments, min_area, image_size)
        afterMerge == IF no_merge THEN afterFilter
                      ELSE merge_overlapping_boxes(afterFilter, iou_threshold)
    IN /\ segments_json.segments = afterMerge
       /\ \A i \in 1..Len(segments_json.segments) :
            ("merged_labels" \in DOMAIN segments_json.segments[i]) <=> ~no_merge
       /\ (no_filter /\ no_merge) => segments_json.segments = segments

\* Both stages skipped on a non-empty raw list.
C7_Witness ==
  /\ pc = "written"
  /\ no_filter /\ no_merge
  /\ Len(segments) >= 2
  /\ segments_json.segments = segments

\* ============================================ claims on the aggregation step
DocSegments == Get(segments_data, "segments", <<>>)
LabelKeys == {ToStr(DocSegments[i].label) : i \in 1..Len(DocSegments)}
FirstWith(key) ==
  SetMin({i \in 1..Len(DocSegments) : ToStr(DocSegments[i].label) = key})

\* C5: of the segments that share a label only the first, in document order,
\* contributes: the entry under that label carries the first segment's bbox and
\* the result is what the first occurrences alone produce.
C5_FirstOccurrenceWins ==
  pc = "aggregated" =>
    LET firsts == {i \in 1..Len(DocSegments) :
                     i = FirstWith(ToStr(DocSegments[i].label))}
        IsFirst(seg) == \E i \in firsts : DocSegments[i] = seg
                                         /\ \A j \in 1..(i - 1) :
                                              DocSegments[j].label # seg.label
        firstOnly == [i \in 1..Cardinality(firsts) |->
                        DocSegments[CHOOSE f \in firsts :
                                      Cardinality({g \in firsts : g <= f}) = i]]
    IN /\ \A key \in LabelKeys :
            Has(results, key) => results[key].bbox = DocSegments[FirstWith(key)].bbox
       /\ results = Aggregate(IF Has(segments_data, "segments")
                              THEN [segments |-> firstOnly] ELSE segments_data,
                              recommendations_data, annotated_exists)

\* Two segments share a label and differ in bbox, and that label has an entry.
C5_Witness ==
  /\ pc = "aggregated"
  /\ Len(DocSegments) >= 2
  /\ \E i, j \in 1..Len(DocSegments) :
       /\ i < j
       /\ DocSegments[i].label = DocSegments[j].label
       /\ DocSegments[i].bbox # DocSegments[j].bbox
       /\ Has(results, ToStr(DocSegments[i].label))

\* C6: a per-label entry {type, bbox, recommendations} is in the result exactly
\* for the keys that are some segment's label and a key of the recommendations
\* document; overall_outfit is in the result exactly when the recommendations
\* document has it, with type and recommendations and no bbox.
C6_JoinByLabel ==
  pc = "aggregated" =>
    /\ \A key \in (DOMAIN results \cup DOMAIN recommendations_data \cup LabelKeys)
                    \ {"overall_outfit", "annotated_image"} :
         /\ Has(results, key) <=>
              (key \in LabelKeys /\ Has(recommendations_data, key))
         /\ Has(results, key) =>
              DOMAIN results[key] = {"type", "bbox", "recommendations"}
    /\ Has(results, "overall_outfit") <=> Has(recommendations_data, "overall_outfit")
    /\ Has(results, "overall_outfit") =>
         DOMAIN results["overall_outfit"] = {"type", "recommendations"}

\* One segment's label has an entry, another's has none, and the overall
\* outfit entry is there.
C6_Witness ==
  /\ pc = "aggregated"
  /\ \E i, j \in 1..Len(DocSegments) :
       /\ Has(recommendations_data, ToStr(DocSegments[i].label))
       /\ ~Has(recommendations_data, ToStr(DocSegments[j].label))
       /\ Has(results, ToStr(DocSegments[i].label))
       /\ ~Has(results, ToStr(DocSegments[j].label))
  /\ Has(results, "overall_outfit")

\* ============================================ claims on the /evaluate service
SubprocessFailures == {"segmentation", "recommendation_step"}
EntryKeys(res) == DOMAIN res \ {"annotated_image", "error"}
LabelEntryKeys(res) == EntryKeys(res) \ {"overall_outfit"}

\* C8 as stated: a run in which the segmentation step or a recommendation
\* service call failed ends with HTTP 500, an error message and no entries.
C8_Original ==
  \A r \in Requests :
    (failed[r] # "none" /\ rpc[r] = "done") =>
      /\ response[r].status = 500
      /\ Has(response[r].body, "error")
      /\ EntryKeys(response[r].body) = {}

\* C8 as amended: a failure of the segmentation subprocess or of the
\* recommendation subprocess ends the run at once with HTTP 500 and a body that
\* holds the error message and nothing else; a recommendation service call that
\* raises inside the recommendation step does not end the run: the step goes on
\* to write its whole document, with the fixed fallback texts in that call's
\* place.
C8_SubprocessFailureAborts ==
  \A r \in Requests :
    /\ failed[r] \in SubprocessFailures =>
         /\ rpc[r] = "done"
         /\ response[r].status = 500
         /\ DOMAIN response[r].body = {"error"}
         /\ response[r].body["error"] =
              (IF failed[r] = "segmentation"
               THEN "segmentation.py returned non-zero exit status 1"
               ELSE "gemini_recommendations.py returned non-zero exit status 1")
    /\ (failed[r] = "gemini_call" /\ rpc[r] = "rec_writing") =>
         /\ Has(pending_recs[r], "overall_outfit")
         /\ \E key \in DOMAIN pending_recs[r] :
              pending_recs[r][key].recommendations.source = "fallback"
         /\ fs_recs = Torn \/ Has(fs_recs, "overall_outfit")

\* One run was ended by its segmentation subprocess; in another a service call
\* raised and the run still answered 200 with a fallback entry.
C8_Witness ==
  \E r1, r2 \in Requests :
    /\ failed[r1] = "segmentation" /\ response[r1].status = 500
    /\ failed[r2] = "gemini_call" /\ response[r2].status = 200
    /\ \E key \in LabelEntryKeys(response[r2].body) :
         response[r2].body[key].recommendations.source = "fallback"

\* C9: every successful response is built from the documents of its own input
\* image alone: its per-label entries are exactly the labels of the image's own
\* segments document, each with that segment's bbox and with recommendations
\* made for that image and that bbox (or the fallback texts).
C9_Isolated ==
  \A r \in Requests :
    response[r].status = 200 =>
      LET img == body[r]["input_path"]
          own == SegmentationDocument(img)["segments"]
          res == response[r].body
      IN /\ LabelEntryKeys(res) = {ToStr(own[i].label) : i \in 1..Len(own)}
         /\ \A key \in LabelEntryKeys(res) :
              \E i \in 1..Len(own) :
                /\ ToStr(own[i].label) = key
                /\ res[key].bbox = own[i].bbox
                /\ res[key].recommendations.source = "gemini" =>
                     /\ res[key].recommendations.image = img
                     /\ res[key].recommendations.crop = own[i].bbox

\* C10 as stated: a success result is returned only when both documents were
\* there for the aggregation to read.
C10_Original ==
  \A r \in Requests :
    response[r].status = 200 =>
      /\ DOMAIN seg_data[r] # {}
      /\ DOMAIN rec_data[r] # {}

\* C10 as amended: the aggregation step runs whether or not the
\* recommendations document exists; when it does not (the recommendation step
\* found no segments and wrote nothing) the step reads it as empty and returns
\* a success result (HTTP 200) with no per-label and no overall_outfit entry.
\* The segments document is always there when the step runs.
C10_MissingReadAsEmpty ==
  [][\A r \in Requests :
       /\ (rpc[r] = "agg_segments" /\ rpc'[r] # rpc[r]) => fs_segments # Absent
       /\ (rpc[r] = "agg_recs" /\ rpc'[r] = "done" /\ fs_recs = Absent) =>
            /\ response'[r].status = 200
            /\ rec_data'[r] = EmptyDict
            /\ EntryKeys(response'[r].body) = {}]_vars

\* A run answered 200 having found no recommendations document.
C10_Witness ==
  \E r \in Requests :
    /\ response[r].status = 200
    /\ DOMAIN rec_data[r] = {}
    /\ fs_recs = Absent
    /\ Has(seg_data[r], "segments")

\* The request carries no usable input path: no parsable body, a body without
\* an input_path member, or an empty input_path.
MissingInputPath(data) == ~Has(data, "input_path") \/ data["input_path"] = ""

\* C11: every answered request whose input path is missing or empty was
\* answered with HTTP 400, and no step of the pipeline was started for it.
C11_InputErrorIs400 ==
  \A r \in Requests :
    (rpc[r] = "done" /\ MissingInputPath(body[r])) =>
      /\ response[r].status = 400
      /\ failed[r] = "none"
      /\ seg_data[r] = EmptyDict /\ rec_data[r] = EmptyDict

\* ------------------------------------------------- claims on calculate_iou
Malformed(box) == box[1] >= box[3] \/ box[2] >= box[4]
\* the unit cells a box covers: none when the box is malformed
Cells(box) == (box[1]..(box[3] - 1)) \X (box[2]..(box[4] - 1))

\* C12: calculate_iou returns a number in [0, 1] for every pair of integer
\* boxes (no division by zero); it is 0 when either box is malformed, when the
\* intersection has non-positive width or height and when the union is 0; for
\* well-formed boxes it is the number of cells in both boxes over the number of
\* cells in either, so intersection <= union.
C12_IouInUnitInterval ==
  pc = "returned" =>
    LET num == iou_returned[1]
        den == iou_returned[2]
        both == Cells(arg_box1) \cap Cells(arg_box2)
        either == Cells(arg_box1) \cup Cells(arg_box2)
    IN /\ den > 0 /\ 0 <= num /\ num <= den
       /\ (Malformed(arg_box1) \/ Malformed(arg_box2)) => num = 0
       /\ both = {} => num = 0
       /\ both # {} =>
            /\ num = Cardinality(both) /\ den = Cardinality(either)
            /\ Cardinality(both) <= Cardinality(either)

\* A box inverted on both axes against a well-formed one: the product of the
\* two negative extents is positive, and the value returned is 0.
C12_Witness ==
  /\ pc = "returned"
  /\ Malformed(arg_box1) /\ ~Malformed(arg_box2)
  /\ calculate_iou_unguarded(arg_box1, arg_box2)[1] > 0
  /\ iou_returned = <<0, 1>>

\* ------------------------------------------- claims on successive runs
\* C13: under one run at a time, every entry of a successful result,
\* overall_outfit included, was made by that run's own recommendation step:
\* a run whose image has no segments (its recommendation step writes nothing)
\* returns no entry, and an entry holding service texts holds the texts for
\* the run's own image.
C13_NoLeftoverEntries ==
  \A r \in Requests :
    response[r].status = 200 =>
      LET img == body[r]["input_path"]
          own == SegmentationDocument(img)["segments"]
          res == response[r].body
      IN /\ own = <<>> => EntryKeys(res) = {}
         /\ \A key \in EntryKeys(res) :
              res[key].recommendations.source = "gemini" =>
                res[key].recommendations.image = img

\* ------------------------------------- claims on the merger's output
\* iou > thr, thr in tenths
Over(iou, thr) == 10 * iou[1] > thr * iou[2]
Single(cluster) == Len(cluster.merged_labels) = 1

\* C14 as stated: no two distinct output clusters have boxes with IoU above
\* the threshold, and merging the output again merges nothing further.
C14_Original ==
  pc = "merged" =>
    /\ \A a, b \in 1..Len(merged) :
         a # b => ~Over(calculate_iou(merged[a].bbox, merged[b].bbox), iou_threshold)
    /\ Len(merge_overlapping_boxes(merged, iou_threshold)) = Len(merged)

\* C14 as amended: two output clusters that each absorbed nothing (a single
\* member each) have boxes with IoU at most the threshold, and when no cluster
\* absorbed anything, merging the output again returns the same labels and
\* boxes.  A cluster that absorbed a segment has a grown box that was never
\* compared with the segments tested before it grew, so nothing is promised
\* for it.
C14_SinglesDoNotOverlap ==
  pc = "merged" =>
    /\ \A a, b \in 1..Len(merged) :
         (a # b /\ Single(merged[a]) /\ Single(merged[b])) =>
           ~Over(calculate_iou(merged[a].bbox, merged[b].bbox), iou_threshold)
    /\ (\A a \in 1..Len(merged) : Single(merged[a])) =>
         merge_overlapping_boxes(merged, iou_threshold) = merged

\* Three segments, none merged, the first and the last overlapping below the
\* threshold.
C14_Witness ==
  /\ pc = "merged"
  /\ Len(segments) = 3 /\ Len(merged) = 3
  /\ calculate_iou(merged[1].bbox, merged[3].bbox)[1] > 0
  /\ iou_threshold = 3

\* ------------------------------------- claims on the labels main() writes
\* C15: segment_image gives one segment per class id, and whatever combination
\* of filter and merge main() runs, the labels of the segments it writes are
\* pairwise distinct; so the recommendations document made from them has
\* exactly one per-label entry per written segment, and the aggregation emits an
\* entry for every written segment with that segment's own bbox.
C15_LabelsStayDistinct ==
  pc = "written" =>
    LET out == segments_json["segments"]
        recs == analyze_segments_with_gemini("image", out, {})
        res == Aggregate(segments_json, recs, TRUE)
    IN /\ \A a, b \in 1..Len(out) : a # b => out[a].label # out[b].label
       /\ Cardinality(DOMAIN recs \ {"overall_outfit"}) = Len(out)
       /\ Cardinality(LabelEntryKeys(res)) = Len(out)
       /\ \A a \in 1..Len(out) :
            /\ Has(res, ToStr(out[a].label))
            /\ res[ToStr(out[a].label)].bbox = out[a].bbox

\* Three classes segmented, the filter and the merge both run, one segment
\* absorbed by another, two segments written.
C15_Witness ==
  /\ pc = "written"
  /\ ~no_filter /\ ~no_merge
  /\ Len(segments) = 3
  /\ Len(segments_json["segments"]) = 2
  /\ \E a \in 1..2 : Len(segments_json["segments"][a].merged_labels) = 2

====
